---- MODULE Spec2Model ----
(***************************************************************************)
(* A model of agent_executor.py: the search gateway, the revenue          *)
(* extractor, the contact enrichment (profile discovery, designation      *)
(* extraction and scoring, manual override, email guess) and the revenue   *)
(* backfill and tier derivation of main.                                   *)
(*                                                                         *)
(* A Python string is a sequence of one-character strings; the characters  *)
(* outside ASCII that the patterns name are the atoms "middot", "endash"   *)
(* and "emdash".  Python's None is the one-element sequence None, whose    *)
(* element is no character, and a NaN cell of the spreadsheet is NaN.      *)
(* An amount of money is <<m, r>>: m million dollars plus r dollars,       *)
(* 0 <= r < 1000000, so that a trillion fits the model checker's integers. *)
(***************************************************************************)
EXTENDS Integers, Sequences, FiniteSets, TLC

VARIABLES
    pc,                 \* position of the program
    api_key,            \* serpapi_key, the credential read from the environment
    name,               \* the contact's name (enrich_contact_with_serpapi)
    company,            \* the company name (both extractors)
    calls,              \* the calls of get_serpapi_search_results so far
    search_results,     \* enrich_contact_with_serpapi: search_results
    candidates,         \* enrich_contact_with_serpapi: candidates
    best_candidate,     \* enrich_contact_with_serpapi: best_candidate
    linkedin_url,       \* enrich_contact_with_serpapi: linkedin_url
    designation,        \* enrich_contact_with_serpapi: designation
    work_email,         \* enrich_contact_with_serpapi: work_email
    result,             \* the value the running function returned
    company_enrichment, \* main: company_enrichment["USD_Normalized"]
    revenue_col,        \* main: companies_df["Estimated revenue (basis public data)"]
    tier_col            \* main: companies_df["Calculated Tier"]

vars == <<pc, api_key, name, company, calls, search_results, candidates,
          best_candidate, linkedin_url, designation, work_email, result,
          company_enrichment, revenue_col, tier_col>>

-----------------------------------------------------------------------------
(* Bounds of the model.                                                    *)

\* the longest result list the provider returns to the revenue query
MaxResults == 2
\* the number of rows of the Company sheet
MaxRows == 2

-----------------------------------------------------------------------------
(* Python values and strings.                                              *)

None == <<"None">>
NaN == <<"NaN">>

\* result.get('link', ''), result.get('title', ''), result.get('snippet', '')
get(field) == IF field = None THEN <<>> ELSE field

UpperChars == <<"A", "B", "C", "D", "E", "F", "G", "H", "I", "J", "K", "L", "M", "N", "O", "P", "Q", "R", "S", "T", "U", "V", "W", "X", "Y", "Z">>
LowerChars == <<"a", "b", "c", "d", "e", "f", "g", "h", "i", "j", "k", "l", "m", "n", "o", "p", "q", "r", "s", "t", "u", "v", "w", "x", "y", "z">>
Digits == <<"0", "1", "2", "3", "4", "5", "6", "7", "8", "9">>

Range(s) == {s[i] : i \in 1..Len(s)}

Min(S) == CHOOSE x \in S : \A y \in S : x <= y
Max(S) == CHOOSE x \in S : \A y \in S : x >= y

\* bool(v) of a string or None, and pandas.isna(v)
Truthy(v) == v # None /\ v # <<>>
isna(v) == v = None \/ v = NaN

UpperSet == Range(UpperChars)
DigitSet == Range(Digits)
AlphaSet == Range(UpperChars) \cup Range(LowerChars)
WordSet == AlphaSet \cup DigitSet \cup {"_"}
\* \s of the re module and the whitespace of str.strip and str.split
SpaceSet == {" ", "\t", "\n"}

\* \d and \w of the re module, on the characters of the model
IsDigit(c) == c \in DigitSet
IsWordChar(c) == c \in WordSet

LowerOf == [c \in UpperSet |-> LowerChars[CHOOSE i \in 1..Len(UpperChars) : UpperChars[i] = c]]

LowerChar(c) == IF c \in UpperSet THEN LowerOf[c] ELSE c

\* str.lower()
lower(s) == [i \in 1..Len(s) |-> LowerChar(s[i])]

\* the literal lit stands in s at position p (1-based)
MatchAt(s, p, lit) ==
    /\ p >= 1
    /\ p + Len(lit) - 1 <= Len(s)
    /\ \A k \in 1..Len(lit) : s[p + k - 1] = lit[k]

\* the same, ignoring case (re.IGNORECASE on a literal)
IMatchAt(s, p, lit) ==
    /\ p >= 1
    /\ p + Len(lit) - 1 <= Len(s)
    /\ \A k \in 1..Len(lit) : LowerChar(s[p + k - 1]) = LowerChar(lit[k])

\* sub in s
Contains(s, sub) == \E p \in 1..(Len(s) - Len(sub) + 1) : MatchAt(s, p, sub)

\* the number of consecutive characters of s from position p on that are in S
RECURSIVE Span(_, _, _)
Span(s, p, S) == IF p <= Len(s) /\ s[p] \in S THEN 1 + Span(s, p + 1, S) ELSE 0

\* the number of consecutive characters of s from position p on that are not in S
RECURSIVE SpanNot(_, _, _)
SpanNot(s, p, S) == IF p <= Len(s) /\ s[p] \notin S THEN 1 + SpanNot(s, p + 1, S) ELSE 0

\* the number of consecutive characters of s from position p back that are in S
RECURSIVE SpanBack(_, _, _)
SpanBack(s, p, S) == IF p >= 1 /\ s[p] \in S THEN 1 + SpanBack(s, p - 1, S) ELSE 0

\* s with the characters that do not satisfy C removed
Filter(s, S) ==
    LET keep == {i \in 1..Len(s) : s[i] \in S}
    IN  [j \in 1..Cardinality(keep) |->
            s[CHOOSE k \in keep : Cardinality({m \in keep : m <= k}) = j]]

\* str.strip(chars): s without its leading and trailing characters of S
StripChars(s, S) ==
    LET a == Span(s, 1, S)
    IN  IF a = Len(s) THEN <<>>
        ELSE SubSeq(s, a + 1, Len(s) - SpanBack(s, Len(s), S))

\* str.strip()
strip(s) == StripChars(s, SpaceSet)

\* str.split(): the maximal runs of characters that are not whitespace
RECURSIVE split(_)
split(s) ==
    LET t == SubSeq(s, 1 + Span(s, 1, SpaceSet), Len(s))
        n == SpanNot(t, 1, SpaceSet)
    IN  IF t = <<>> THEN <<>>
        ELSE <<SubSeq(t, 1, n)>> \o split(SubSeq(t, n + 1, Len(t)))

\* str.split(' '): the pieces between single spaces, empty pieces included
RECURSIVE split_space(_)
split_space(s) ==
    LET n == SpanNot(s, 1, {" "})
    IN  IF n = Len(s) THEN <<s>>
        ELSE <<SubSeq(s, 1, n)>> \o split_space(SubSeq(s, n + 2, Len(s)))

\* str.replace(old, ""), old not empty: every occurrence removed, left to right
RECURSIVE remove_all(_, _)
remove_all(s, old) ==
    IF s = <<>> THEN <<>>
    ELSE IF MatchAt(s, 1, old) THEN remove_all(SubSeq(s, Len(old) + 1, Len(s)), old)
    ELSE <<Head(s)>> \o remove_all(Tail(s), old)

-----------------------------------------------------------------------------
(* The search gateway.                                                     *)

\* what the provider does with one request: raises, or answers with a
\* dictionary that may hold an "error" and may hold "organic_results"
Response(raises, error, organic) ==
    [raises |-> raises, error |-> error, organic |-> organic, sent |-> TRUE]

Gateway_NoExcept(key, query, num_results, resp) ==
    IF ~Truthy(key) \/ Contains(key, <<"y", "o", "u", "r", "_", "a", "p", "i", "_", "k", "e", "y", "_", "h", "e", "r", "e">>)
    THEN [ret |-> <<>>, raised |-> FALSE, requested |-> FALSE]
    ELSE IF resp.raises THEN [ret |-> <<>>, raised |-> TRUE, requested |-> TRUE]
    ELSE IF resp.error THEN [ret |-> <<>>, raised |-> FALSE, requested |-> TRUE]
    ELSE [ret |-> resp.organic, raised |-> FALSE, requested |-> TRUE]

\* get_serpapi_search_results: ret is the list returned, raised says that an
\* exception left the function instead, requested that GoogleSearch was asked
get_serpapi_search_results(key, query, num_results, resp) ==
    IF ~Truthy(key) \/ Contains(key, <<"y", "o", "u", "r", "_", "a", "p", "i", "_", "k", "e", "y", "_", "h", "e", "r", "e">>)
    THEN [ret |-> <<>>, raised |-> FALSE, requested |-> FALSE]
    ELSE IF resp.raises THEN [ret |-> <<>>, raised |-> FALSE, requested |-> TRUE]
    ELSE IF resp.error THEN [ret |-> <<>>, raised |-> FALSE, requested |-> TRUE]
    ELSE [ret |-> resp.organic, raised |-> FALSE, requested |-> TRUE]

\* one entry of the call log: the request, what the provider did with it, and
\* what the gateway handed back
NoRequest == [raises |-> FALSE, error |-> FALSE, organic |-> <<>>, sent |-> FALSE]

Call(query, num_results, resp, got) ==
    [query |-> query, num |-> num_results,
     resp |-> IF got.requested THEN resp ELSE NoRequest,
     ret |-> got.ret, raised |-> got.raised]

-----------------------------------------------------------------------------
(* The revenue extractor.                                                  *)

DigitOrDotSet == DigitSet \cup {"."}

MagnitudeWords == {<<"b", "i", "l", "l", "i", "o", "n">>, <<"m", "i", "l", "l", "i", "o", "n">>, <<"t", "r", "i", "l", "l", "i", "o", "n">>}

\* revenue_pattern at position p of s: the position after the match, 0 if none.
\* \$[\d,]+\.?\d*\s*(?:billion|million|trillion), re.IGNORECASE
revenue_pattern_at(s, p) ==
    IF s[p] # "$" THEN 0
    ELSE LET n1 == Span(s, p + 1, DigitSet \cup {","})
             a == p + 1 + n1
             b == IF a <= Len(s) /\ s[a] = "." THEN a + 1 ELSE a
             c == b + Span(s, b, DigitSet)
             d == c + Span(s, c, SpaceSet)
             ws == {w \in MagnitudeWords : IMatchAt(s, d, w)}
         IN  IF n1 = 0 \/ ws = {} THEN 0
             ELSE d + Len(CHOOSE w \in ws : TRUE)

\* revenue_pattern.search(snippet): group 1 of the leftmost match, None if none
revenue_pattern_search(snippet) ==
    LET starts == {p \in 1..Len(snippet) : revenue_pattern_at(snippet, p) # 0}
    IN  IF starts = {} THEN None
        ELSE SubSeq(snippet, Min(starts), revenue_pattern_at(snippet, Min(starts)) - 1)

DigitValue(c) == (CHOOSE i \in 1..Len(Digits) : Digits[i] = c) - 1

RECURSIVE DigitsValue(_)
DigitsValue(ds) ==
    IF ds = <<>> THEN 0
    ELSE 10 * DigitsValue(SubSeq(ds, 1, Len(ds) - 1)) + DigitValue(ds[Len(ds)])

\* float(x) of a string of digits and dots: the digits as an integer and the
\* number of decimals; ok is FALSE where float raises ValueError
ParseFloat(x) ==
    LET dots == {i \in 1..Len(x) : x[i] = "."}
        ds == Filter(x, DigitSet)
    IN  [ok |-> Cardinality(dots) <= 1 /\ ds # <<>>,
         digits |-> IF ds = <<>> THEN 0 ELSE DigitsValue(ds),
         decimals |-> IF dots = {} THEN 0 ELSE Len(x) - Max(dots)]

Pow10 == <<10, 100, 1000, 10000, 100000, 1000000>>
Power10(n) == IF n = 0 THEN 1 ELSE Pow10[n]

\* the amount digits / 10^decimals * 10^exponent, a whole number of dollars
Scaled(f, exponent) ==
    LET x == exponent - f.decimals
    IN  IF x >= 6 THEN <<f.digits * Power10(x - 6), 0>>
        ELSE <<(f.digits * Power10(x)) \div 1000000, (f.digits * Power10(x)) % 1000000>>

Positive(amount) == amount[1] > 0 \/ amount[2] > 0

Zero == <<0, 0>>

\* lines 62-72: the value of the matched text; raised where float raises
revenue_value(revenue_str) ==
    LET low == lower(revenue_str)
        value_str == strip(Filter(low, Range(low) \ {"$", ","}))
        f == ParseFloat(Filter(value_str, DigitOrDotSet))
        exponent == IF Contains(value_str, <<"b", "i", "l", "l", "i", "o", "n">>) THEN 9
                    ELSE IF Contains(value_str, <<"m", "i", "l", "l", "i", "o", "n">>) THEN 6
                    ELSE IF Contains(value_str, <<"t", "r", "i", "l", "l", "i", "o", "n">>) THEN 12
                    ELSE 0
    IN  IF exponent = 0 THEN [raised |-> FALSE, value |-> Zero]
        ELSE IF ~f.ok THEN [raised |-> TRUE, value |-> Zero]
        ELSE [raised |-> FALSE, value |-> Scaled(f, exponent)]

RevenueFact(amount, confidence) == [USD_Normalized |-> amount, Confidence |-> confidence]

\* one turn of the loop of lines 53-75: the amount the snippet makes the
\* function return, None if the loop goes on to the next result
Hit(snippet) ==
    LET m == IF snippet = <<>> THEN None ELSE revenue_pattern_search(snippet)
        v == revenue_value(m)
    IN  IF m = None THEN None
        ELSE IF v.raised THEN None
        ELSE IF Positive(v.value) THEN v.value
        ELSE None

Scan_LastWins(results) ==
    LET hits == {i \in 1..Len(results) : Hit(get(results[i].snippet)) # None}
    IN  IF hits = {} THEN RevenueFact(None, "Low")
        ELSE RevenueFact(Hit(get(results[Max(hits)].snippet)), "Medium")

\* lines 53-78: the loop over the results and the return after it
RECURSIVE Scan(_)
Scan(results) ==
    IF results = <<>> THEN RevenueFact(None, "Low")
    ELSE IF Hit(get(Head(results).snippet)) # None
         THEN RevenueFact(Hit(get(Head(results).snippet)), "Medium")
         ELSE Scan(Tail(results))

Quote == <<"\"">>

RevenueQuery(company_name) == Quote \o company_name \o Quote \o <<" ", "a", "n", "n", "u", "a", "l", " ", "r", "e", "v", "e", "n", "u", "e">>

Revenue_NoShortCircuit(key, company_name, resp) ==
    LET q == RevenueQuery(IF Truthy(company_name) /\ ~isna(company_name) THEN company_name ELSE <<>>)
        got == get_serpapi_search_results(key, q, 5, resp)
    IN  IF got.raised
        THEN [ret |-> None, calls |-> <<Call(q, 5, resp, got)>>, raised |-> TRUE]
        ELSE [ret |-> Scan(got.ret), calls |-> <<Call(q, 5, resp, got)>>, raised |-> FALSE]

\* get_company_revenue_from_serpapi: the value returned, and the gateway
\* calls made on the way
get_company_revenue_from_serpapi(key, company_name, resp) ==
    IF ~Truthy(company_name) \/ isna(company_name)
    THEN [ret |-> RevenueFact(None, "Low"), calls |-> <<>>, raised |-> FALSE]
    ELSE LET q == RevenueQuery(company_name)
             got == get_serpapi_search_results(key, q, 5, resp)
         IN  IF got.raised
             THEN [ret |-> None, calls |-> <<Call(q, 5, resp, got)>>, raised |-> TRUE]
             ELSE [ret |-> Scan(got.ret), calls |-> <<Call(q, 5, resp, got)>>, raised |-> FALSE]

-----------------------------------------------------------------------------
(* Contact enrichment: profile discovery.                                  *)

ProfileMarker == <<"l", "i", "n", "k", "e", "d", "i", "n", ".", "c", "o", "m", "/", "i", "n", "/">>

NeedStage2_Always(results) == TRUE

\* line 95: the broad search gave nothing, or no personal profile first
NeedStage2(results) ==
    results = <<>> \/ ~Contains(get(results[1].link), ProfileMarker)

Accepted_AnyResult(results) == results # <<>>

\* line 101: the list is not empty and the link of its first result holds the
\* marker of a personal profile
Accepted(results) ==
    results # <<>> /\ Contains(get(results[1].link), ProfileMarker)

Stage1Query(n, c) ==
    Quote \o n \o Quote \o <<" ">> \o Quote \o c \o Quote \o <<" ", "s", "i", "t", "e", ":", "l", "i", "n", "k", "e", "d", "i", "n", ".", "c", "o", "m">>

Stage2Query(n, c) ==
    Quote \o n \o Quote \o <<" ">> \o Quote \o c \o Quote
        \o <<" ", "l", "i", "n", "k", "e", "d", "i", "n", " ", "p", "r", "o", "f", "i", "l", "e", " ", "s", "i", "t", "e", ":", "l", "i", "n", "k", "e", "d", "i", "n", ".", "c", "o", "m", "/", "i", "n", "/">>

DomainQuery(c) == Quote \o c \o Quote \o <<" ", "o", "f", "f", "i", "c", "i", "a", "l", " ", "w", "e", "b", "s", "i", "t", "e">>

-----------------------------------------------------------------------------
(* Contact enrichment: designation candidates.                             *)

\* the class [\w\s,'()-] of patterns 1, 2 and 4
TitleSet == WordSet \cup SpaceSet \cup {",", "'", "(", ")", "-"}
IsTitleChar(c) == c \in TitleSet

\* the tail \s*(?:@|at)\s+<company> of pattern 1 at position p of s: the
\* position after it, 0 if it does not match there
pattern1_tail(s, p, c) ==
    LET q == p + Span(s, p, SpaceSet)
        alt == IF MatchAt(s, q, <<"@">>) THEN 1
               ELSE IF IMatchAt(s, q, <<"a", "t">>) THEN 2
               ELSE 0
        r == q + alt
        bs == {b \in 1..Span(s, r, SpaceSet) : IMatchAt(s, r + b, c)}
    IN  IF alt = 0 \/ bs = {} THEN 0 ELSE r + Max(bs) + Len(c)

\* the tail \s*[-|·]\s*<company> of pattern 2
pattern2_tail(s, p, c) ==
    LET q == p + Span(s, p, SpaceSet)
        sep == q <= Len(s) /\ s[q] \in {"-", "|", "middot"}
        r == q + 1
        bs == {b \in 0..Span(s, r, SpaceSet) : IMatchAt(s, r + b, c)}
    IN  IF ~sep \/ bs = {} THEN 0 ELSE r + Max(bs) + Len(c)

\* pattern 1 (pattern 2) at position i of s, the lazy group ([\w\s,'()-]+?)
\* taking the shortest run that lets the tail match:
\* <<length of the group, position after the match>>, <<0, 0>> if no match
pattern1_at(s, i, c) ==
    LET ls == {l \in 1..Span(s, i, TitleSet) : pattern1_tail(s, i + l, c) # 0}
    IN  IF ls = {} THEN <<0, 0>> ELSE <<Min(ls), pattern1_tail(s, i + Min(ls), c)>>

pattern2_at(s, i, c) ==
    LET ls == {l \in 1..Span(s, i, TitleSet) : pattern2_tail(s, i + l, c) # 0}
    IN  IF ls = {} THEN <<0, 0>> ELSE <<Min(ls), pattern2_tail(s, i + Min(ls), c)>>

\* the leftmost position from pos on where pattern 1 (pattern 2) matches, 0 if none
RECURSIVE pattern1_start(_, _, _)
pattern1_start(s, pos, c) ==
    IF pos > Len(s) THEN 0
    ELSE IF pattern1_at(s, pos, c)[1] # 0 THEN pos
    ELSE pattern1_start(s, pos + 1, c)

RECURSIVE pattern2_start(_, _, _)
pattern2_start(s, pos, c) ==
    IF pos > Len(s) THEN 0
    ELSE IF pattern2_at(s, pos, c)[1] # 0 THEN pos
    ELSE pattern2_start(s, pos + 1, c)

\* pattern1.finditer(s) from position pos on: group 1 of the matches, left to
\* right, each search starting where the match before ended
RECURSIVE pattern1_finditer(_, _, _)
pattern1_finditer(s, pos, c) ==
    LET i == pattern1_start(s, pos, c)
        m == pattern1_at(s, i, c)
    IN  IF i = 0 THEN <<>>
        ELSE <<SubSeq(s, i, i + m[1] - 1)>> \o pattern1_finditer(s, m[2], c)

RECURSIVE pattern2_finditer(_, _, _)
pattern2_finditer(s, pos, c) ==
    LET i == pattern2_start(s, pos, c)
        m == pattern2_at(s, i, c)
    IN  IF i = 0 THEN <<>>
        ELSE <<SubSeq(s, i, i + m[1] - 1)>> \o pattern2_finditer(s, m[2], c)

Stop3Set == {",", "middot", "|"}

\* pattern3.search(s), ^<name>\s*[,·-]\s*([^,·|]+): group 1, None if no match
pattern3_search(s, n) ==
    LET q == Len(n) + 1 + Span(s, Len(n) + 1, SpaceSet)
        sep == q <= Len(s) /\ s[q] \in {",", "middot", "-"}
        r == q + 1
        bs == {b \in 0..Span(s, r, SpaceSet) : r + b <= Len(s) /\ s[r + b] \notin Stop3Set}
        g == r + Max(bs)
    IN  IF ~IMatchAt(s, 1, n) THEN None
        ELSE IF ~sep \/ bs = {} THEN None
        ELSE SubSeq(s, g, g + SpanNot(s, g, Stop3Set) - 1)

\* pattern 4 at position p of s, (?:i'm a|is a)\s+([\w\s,'()-]+): group 1
pattern4_at(s, p) ==
    LET alt == IF IMatchAt(s, p, <<"i", "'", "m", " ", "a">>) THEN 5
               ELSE IF IMatchAt(s, p, <<"i", "s", " ", "a">>) THEN 4
               ELSE 0
        r == p + alt
        bs == {b \in 1..Span(s, r, SpaceSet) : r + b <= Len(s) /\ IsTitleChar(s[r + b])}
        g == r + Max(bs)
    IN  IF alt = 0 \/ bs = {} THEN None
        ELSE SubSeq(s, g, g + Span(s, g, TitleSet) - 1)

\* pattern4.search(s)
pattern4_search(s) ==
    LET starts == {p \in 1..Len(s) : pattern4_at(s, p) # None}
    IN  IF starts = {} THEN None ELSE pattern4_at(s, Min(starts))

Candidate(text, score) == [text |-> text, score |-> score]

WithScore(texts, score) == [i \in 1..Len(texts) |-> Candidate(texts[i], score)]

\* lines 106-139: the candidates of the four patterns, in the order appended
Candidates(n, c, title, snippet) ==
    LET full_text == title \o <<" ", "|", " ">> \o snippet
        match3 == pattern3_search(full_text, n)
        match4 == pattern4_search(snippet)
    IN  WithScore(pattern1_finditer(full_text, 1, c), 100)
        \o WithScore(pattern2_finditer(title, 1, c), 80)
        \o (IF match3 = None THEN <<>> ELSE <<Candidate(match3, 60)>>)
        \o (IF match4 = None THEN <<>> ELSE <<Candidate(match4, 40)>>)

-----------------------------------------------------------------------------
(* Contact enrichment: cleaning, validation, scoring, selection.           *)

NameSeparators == {"-", "endash", "emdash", ",", "middot", "|", "."}
EdgeChars == {" ", "-", "|", "middot", ","}

\* lines 147-148: the leading name, one separator and the whitespace around
\* it removed, then strip() and strip(' -|·,')
Clean(text, n) ==
    LET q == Len(n) + 1 + Span(text, Len(n) + 1, SpaceSet)
        r == IF q <= Len(text) /\ text[q] \in NameSeparators THEN q + 1 ELSE q
        rest == IF IMatchAt(text, 1, n)
                THEN SubSeq(text, r + Span(text, r, SpaceSet), Len(text))
                ELSE text
    IN  StripChars(strip(rest), EdgeChars)

FixedIgnoreKeywords ==
    { <<"p", "r", "e", "v">>, <<"p", "r", "e", "v", "i", "o", "u", "s">>, <<"f", "o", "r", "m", "e", "r">>, <<"e", "x">>, <<"s", "t", "u", "d", "e", "n", "t">>, <<"g", "r", "a", "d", "u", "a", "t", "e">>,
      <<"u", "n", "i", "v", "e", "r", "s", "i", "t", "y">>, <<"c", "o", "l", "l", "e", "g", "e">>, <<"i", "n", "s", "t", "i", "t", "u", "t", "e">>, <<"s", "c", "h", "o", "o", "l">>, <<"a", "c", "a", "d", "e", "m", "y">>,
      <<"l", "i", "n", "k", "e", "d", "i", "n">>, <<"p", "r", "o", "f", "i", "l", "e">>, <<"c", "o", "n", "n", "e", "c", "t", "i", "o", "n", "s">>, <<"f", "o", "l", "l", "o", "w", "e", "r", "s">>, <<"v", "i", "e", "w">>,
      <<"m", "u", "t", "u", "a", "l">>, <<"e", "x", "p", "e", "r", "i", "e", "n", "c", "e">>, <<"e", "d", "u", "c", "a", "t", "i", "o", "n">>, <<"v", "o", "l", "u", "n", "t", "e", "e", "r">>, <<"s", "k", "i", "l", "l", "s">>,
      <<"e", "n", "d", "o", "r", "s", "e", "m", "e", "n", "t", "s">>, <<"t", "u", "f", "t", "s">> }

IgnoreKeywords_NoName(n, c) ==
    FixedIgnoreKeywords \cup {lower(c)}

\* lines 111-117: ignore_keywords
IgnoreKeywords(n, c) ==
    FixedIgnoreKeywords
        \cup {lower(c)}
        \cup {w \in Range(split(lower(n))) : Len(w) > 2}

JobWords ==
    { <<"m", "a", "n", "a", "g", "e", "r">>, <<"d", "i", "r", "e", "c", "t", "o", "r">>, <<"e", "n", "g", "i", "n", "e", "e", "r">>, <<"l", "e", "a", "d">>, <<"h", "e", "a", "d">>,
      <<"s", "p", "e", "c", "i", "a", "l", "i", "s", "t">>, <<"s", "d", "e">>, <<"i", "n", "t", "e", "r", "n">>, <<"c", "o", "n", "s", "u", "l", "t", "a", "n", "t">>, <<"a", "n", "a", "l", "y", "s", "t">>,
      <<"a", "r", "c", "h", "i", "t", "e", "c", "t">>, <<"v", "p">>, <<"p", "r", "e", "s", "i", "d", "e", "n", "t">>, <<"o", "f", "f", "i", "c", "e", "r">>, <<"c", "a">>, <<"c", "p", "a">>,
      <<"c", "m", "a">> }

\* lines 151-154: the cleaned text passes the validation
Valid(cleaned, n, c) ==
    /\ cleaned # <<>>
    /\ Len(cleaned) >= 3
    /\ ~Contains(cleaned, <<".", ".", ".">>)
    /\ Len(cleaned) <= 50
    /\ \A kw \in IgnoreKeywords(n, c) : ~Contains(lower(cleaned), kw)

\* lines 157-159: the score of the pattern, plus the bonus for a job word
AdjustedScore(cleaned, score) ==
    IF \E w \in JobWords : Contains(lower(cleaned), w) THEN score + 20 ELSE score

Better_OrEqual(score, highest_score) == score >= highest_score

\* line 161
Better(score, highest_score) == score > highest_score

\* lines 145-163: the loop over the candidates, from best_candidate = best and
\* highest_score = highest on
RECURSIVE Select(_, _, _, _, _)
Select(cands, n, c, best, highest) ==
    IF cands = <<>> THEN best
    ELSE LET cleaned == Clean(Head(cands).text, n)
             score == AdjustedScore(cleaned, Head(cands).score)
         IN  IF Valid(cleaned, n, c) /\ Better(score, highest)
             THEN Select(Tail(cands), n, c, cleaned, score)
             ELSE Select(Tail(cands), n, c, best, highest)

-----------------------------------------------------------------------------
(* Contact enrichment: manual override and email guess.                    *)

\* MANUAL_DESIGNATIONS, in the order of the dictionary
MANUAL_DESIGNATIONS ==
    << <<<<"J", "u", "l", "i", "a", "n", " ", "K", "e", "l", "l", "y">>, <<"G", "o", "o", "g", "l", "e">>, <<"S", "r", ".", " ", "D", "i", "r", "e", "c", "t", "o", "r", ",", " ", "H", "a", "r", "d", "w", "a", "r", "e", " ", "a", "t", " ", "G", "o", "o", "g", "l", "e", " ", "Q", "u", "a", "n", "t", "u", "m", " ", "A", "I">>>>,
       <<<<"A", "n", "d", "y", " ", "W", "o", "n", "g">>, <<"M", "e", "t", "a">>, <<"E", "n", "g", "i", "n", "e", "e", "r", "i", "n", "g">>>>,
       <<<<"S", "r", "i", "l", "a", "k", "s", "h", "m", "i", " ", "P", "e", "r", "i">>, <<"G", "o", "o", "g", "l", "e">>, <<"U", "X", " ", "D", "e", "s", "i", "g", "n">>>>,
       <<<<"S", "a", "i", " ", "S", "w", "a", "r", "u", "p", " ", "N", "e", "r", "e", "l", "l", "a">>, <<"H", "u", "b", "s", "p", "o", "t">>, <<"H", "u", "b", "S", "p", "o", "t", " ", "S", "E", "@", "C", "l", "o", "u", "d", "F", "i", "l", "e", "s">>>>,
       <<<<"G", "a", "u", "r", "i", " ", "S", "a", "x", "e", "n", "a">>, <<"P", "W", " ", "&", " ", "C", "o", " ", "L", "L", "P">>, <<"C", "A", "-", " ", "M", "&", "A", "-", " ", "P", "w", " ", "&", " ", "C", "o", " ", "L", "L", "P", " ", "|", " ", "C", "P", "A", " ", "(", "A", "U", ")", " ", "|", " ", "C", "M", "A", " ", "(", "I", "C", "W", "A", "I", ")">>>> >>

ManualMatch_CaseSensitive(entry, n, c) == entry[1] = n /\ entry[2] = c

\* line 172
ManualMatch(entry, n, c) == lower(entry[1]) = lower(n) /\ lower(entry[2]) = lower(c)

\* lines 169-175: the designation of the first entry that matches, None if none
ManualOverride(n, c) ==
    LET hits == {i \in 1..Len(MANUAL_DESIGNATIONS) : ManualMatch(MANUAL_DESIGNATIONS[i], n, c)}
    IN  IF hits = {} THEN None ELSE MANUAL_DESIGNATIONS[Min(hits)][3]

IsSchemeChar(ch) == (IsWordChar(ch) /\ ch # "_") \/ ch \in {"+", "-", "."}
IsAlpha(ch) == ch \in AlphaSet

\* urllib.parse.urlparse(url).netloc; raised where urlsplit raises ValueError
\* for a bracket without its partner (links with both brackets are not among
\* the inputs)
urlparse_netloc(url) ==
    LET colon == SpanNot(url, 1, {":"}) + 1
        scheme == /\ colon >= 2
                  /\ colon <= Len(url)
                  /\ IsAlpha(url[1])
                  /\ \A k \in 1..(colon - 1) : IsSchemeChar(url[k])
        rest == IF scheme THEN SubSeq(url, colon + 1, Len(url)) ELSE url
        n == SpanNot(rest, 3, {"/", "?", "#"})
        netloc == IF MatchAt(rest, 1, <<"/", "/">>) THEN SubSeq(rest, 3, 2 + n) ELSE <<>>
    IN  [netloc |-> netloc,
         raised |-> ("[" \in Range(netloc)) # ("]" \in Range(netloc))]

\* line 188: netloc.replace("www.", "")
StripWww(netloc) == remove_all(netloc, <<"w", "w", "w", ".">>)

\* lines 186-197: the work email guessed from the results of the domain lookup
Email(n, domain_results) ==
    LET parsed == urlparse_netloc(domain_results[1].link)
        domain_hint == StripWww(parsed.netloc)
        parts == split_space(n)
    IN  IF domain_results = <<>> THEN None
        ELSE IF domain_results[1].link = None THEN None
        ELSE IF parsed.raised THEN None
        ELSE IF domain_hint # <<>> /\ Len(parts) > 1
             THEN lower(parts[1]) \o <<".">> \o lower(parts[Len(parts)]) \o <<"@">> \o domain_hint
             ELSE None

\* line 204
Confidence(url, desig) == IF Truthy(url) THEN "Medium" ELSE "Low"

\* the dictionary enrich_contact_with_serpapi returns
Enrichment(url, desig, email, confidence) ==
    [LinkedInURL |-> url, CurrentDesignation |-> desig, WorkEmail |-> email,
     EnrichmentSource |-> "SerpApi", Confidence |-> confidence]

-----------------------------------------------------------------------------
(* Revenue backfill and tier derivation of main.                           *)

\* pandas.to_numeric of one cell: None becomes NaN
to_numeric(v) == IF v = None THEN NaN ELSE v

\* DataFrame.fillna({column: 0}) of one cell
fillna_zero(v) == IF v = NaN THEN Zero ELSE v

\* a > b and a >= b of two amounts
GT(a, b) == a[1] > b[1] \/ (a[1] = b[1] /\ a[2] > b[2])
GE(a, b) == a[1] > b[1] \/ (a[1] = b[1] /\ a[2] >= b[2])

\* line 245: the random values go to the rows of the mask, the others stay
Backfill(col, rnd) ==
    [i \in 1..Len(col) |-> IF i \in DOMAIN rnd THEN rnd[i] ELSE col[i]]

Tier_AtLeast(r) ==
    IF GE(r, <<1000, 0>>) THEN "Super Platinum"
    ELSE IF GE(r, <<500, 0>>) THEN "Platinum"
    ELSE IF GE(r, <<100, 0>>) THEN "Diamond"
    ELSE "Gold"

\* lines 251-257: numpy.select takes the first condition that holds
Tier(r) ==
    IF GT(r, <<1000, 0>>) THEN "Super Platinum"
    ELSE IF GE(r, <<500, 0>>) THEN "Platinum"
    ELSE IF GE(r, <<100, 0>>) THEN "Diamond"
    ELSE "Gold"

-----------------------------------------------------------------------------
(* The inputs of the model.                                                *)

\* one record of "organic_results"
Result(link, title, snippet) == [link |-> link, title |-> title, snippet |-> snippet]

\* SERPAPI_API_KEY: unset, empty, the placeholder of the .env template, a key
Keys == {None, <<>>, <<"y", "o", "u", "r", "_", "a", "p", "i", "_", "k", "e", "y", "_", "h", "e", "r", "e">>, <<"k", "9">>}

CompanyNames == {None, NaN, <<>>, <<"A", "c", "m", "e">>}

RevenueSnippets ==
    { <<>>,
      <<"n", "/", "a">>,
      <<"$", "1", ".", "2", " ", "b", "i", "l", "l", "i", "o", "n">>,
      <<"$", "5", "0", "0", " ", "M", "I", "L", "L", "I", "O", "N">>,
      <<"$", "2", " ", "t", "r", "i", "l", "l", "i", "o", "n">>,
      <<"$", "0", " ", "m", "i", "l", "l", "i", "o", "n">>,
      <<"$", ",", " ", "m", "i", "l", "l", "i", "o", "n">>,
      <<"$", "0", ".", "0", " ", "b", "i", "l", "l", "i", "o", "n", ",", " ", "$", "3", " ", "m", "i", "l", "l", "i", "o", "n">>,
      <<"m", "a", "d", "e", " ", "$", "1", ",", "0", "0", "0", ".", "5", " ", "m", "i", "l", "l", "i", "o", "n">> }

RECURSIVE SeqsUpTo(_, _)
SeqsUpTo(S, n) ==
    IF n = 0 THEN {<<>>}
    ELSE SeqsUpTo(S, n - 1) \cup
         {Append(q, x) : q \in {r \in SeqsUpTo(S, n - 1) : Len(r) = n - 1}, x \in S}

RevenueResultLists ==
    {[i \in 1..Len(q) |-> Result(<<>>, <<>>, q[i])] : q \in SeqsUpTo(RevenueSnippets, MaxResults)}

\* what the provider may do with a request whose good answers are the lists L
Responses(L) ==
    {Response(TRUE, FALSE, <<>>)} \cup
    {Response(FALSE, TRUE, l) : l \in {<<>>, CHOOSE m \in L : Len(m) = 1}} \cup
    {Response(FALSE, FALSE, l) : l \in L}

\* the Company sheet: a name, or an empty cell
MainCompanies == {NaN, <<"A", "c", "m", "e">>}

MainSnippets ==
    { <<"$", "1", " ", "b", "i", "l", "l", "i", "o", "n">>,
      <<"$", "1", ",", "0", "0", "0", ".", "0", "0", "0", "0", "0", "1", " ", "m", "i", "l", "l", "i", "o", "n">>,
      <<"$", "5", "0", "0", " ", "m", "i", "l", "l", "i", "o", "n">>,
      <<"$", "1", "0", "0", " ", "m", "i", "l", "l", "i", "o", "n">>,
      <<"$", "9", "9", ".", "9", "9", "9", "9", "9", "9", " ", "m", "i", "l", "l", "i", "o", "n">>,
      <<"$", "2", " ", "t", "r", "i", "l", "l", "i", "o", "n">> }

MainResponses ==
    {Response(FALSE, FALSE, <<>>)} \cup
    {Response(FALSE, FALSE, <<Result(<<>>, <<>>, t)>>) : t \in MainSnippets}

\* values of numpy.random.randint(50_000_000, 1_500_000_000) at the ends of
\* the range and on both sides of the tier thresholds
RandomSample ==
    { <<50, 0>>, <<99, 999999>>, <<100, 0>>, <<499, 999999>>, <<500, 0>>,
      <<1000, 0>>, <<1000, 1>>, <<1499, 999999>> }

\* the rows of the Contacts sheet: (Full Name, Current Company)
Contacts ==
    { <<<<"A", "n", "n", " ", "L", "e", "e">>, <<"A", "c", "m", "e">>>>,
      <<<<"L", "i", " ", "W", "e", "i">>, <<"A", "c", "m", "e">>>>,
      <<<<"C", "h", "e", "r">>, <<"A", "c", "m", "e">>>>,
      <<<<"a", "n", "d", "y", " ", "w", "o", "n", "g">>, <<"M", "E", "T", "A">>>>,
      <<<<"J", "u", "l", "i", "a", "n", " ", "K", "e", "l", "l", "y">>, <<"g", "o", "o", "g", "l", "e">>>>,
      <<None, <<"A", "c", "m", "e">>>>,
      <<<<>>, <<"A", "c", "m", "e">>>>,
      <<<<"A", "n", "n", " ", "L", "e", "e">>, NaN>>,
      <<<<"A", "n", "n", " ", "L", "e", "e">>, <<>>>> }

ProfileLink == <<"h", "t", "t", "p", "s", ":", "/", "/", "l", "i", "n", "k", "e", "d", "i", "n", ".", "c", "o", "m", "/", "i", "n", "/", "x", "1">>
CompanyLink == <<"h", "t", "t", "p", "s", ":", "/", "/", "l", "i", "n", "k", "e", "d", "i", "n", ".", "c", "o", "m", "/", "c", "o", "m", "p", "a", "n", "y", "/", "x">>

\* results the provider may give to a profile search for n at c
ProfileResults(n, c) ==
    { Result(ProfileLink, n \o <<" ", "-", " ", "S", "a", "l", "e", "s", " ", "L", "e", "a", "d", " ", "-", " ">> \o c,
             <<"F", "o", "u", "n", "d", "e", "r", " ", "a", "t", " ">> \o c \o <<",", " ", "O", "w", "n", "e", "r", " ", "@", " ">> \o c),
      Result(ProfileLink, n \o <<" ", "-", " ", "S", "a", "l", "e", "s", " ", "L", "e", "a", "d", " ", "-", " ">> \o c, <<>>),
      Result(ProfileLink, n \o <<",", " ", "P", "a", "r", "t", "n", "e", "r", ",", " ">> \o c,
             n \o <<" ", "i", "s", " ", "a", " ", "D", "i", "r", "e", "c", "t", "o", "r", " ", "o", "f", " ", "S", "a", "l", "e", "s", ".">>),
      Result(ProfileLink, <<"C", "l", "i", "e", "n", "t", " ", "P", "a", "r", "t", "n", "e", "r", " ", "a", "t", " ">> \o c,
             <<"D", "r", " ">> \o n \o <<" ", "a", "t", " ">> \o c),
      Result(ProfileLink, n \o <<" ", "-", " ">> \o c \o <<" ", "|", " ", "L", "i", "n", "k", "e", "d", "I", "n">>, None),
      Result(ProfileLink, n,
             <<"F", "o", "u", "n", "d", "e", "r", " ", "a", "t", " ">> \o c \o <<",", " ", "S", "a", "l", "e", "s", " ", "L", "e", "a", "d", " ", "a", "t", " ">> \o c),
      Result(ProfileLink, n, <<"M", "r", " ">> \o split(n)[1] \o <<" ", "a", "t", " ">> \o c),
      Result(CompanyLink, n \o <<" ", "-", " ", "S", "a", "l", "e", "s", " ", "L", "e", "a", "d", " ", "-", " ">> \o c, <<>>),
      Result(None, n \o <<" ", "-", " ", "S", "a", "l", "e", "s", " ", "L", "e", "a", "d", " ", "-", " ">> \o c, <<>>) }

ProfileLists(n, c) ==
    {<<>>} \cup {<<r>> : r \in ProfileResults(n, c)}
        \cup {<<Result(CompanyLink, n, <<>>), Result(ProfileLink, <<"C", "T", "O", " ", "a", "t", " ">> \o c, <<>>)>>}

DomainLists ==
    { <<>>,
      <<Result(<<"h", "t", "t", "p", "s", ":", "/", "/", "w", "w", "w", ".", "a", "c", "m", "e", ".", "c", "o", "m", "/", "a", "b", "o", "u", "t">>, <<>>, <<>>)>>,
      <<Result(<<"h", "t", "t", "p", ":", "/", "/", "s", "h", "o", "p", ".", "w", "w", "w", ".", "a", "c", "m", "e", ".", "c", "o", "m">>, <<>>, <<>>)>>,
      <<Result(<<"a", "c", "m", "e", ".", "c", "o", "m">>, <<>>, <<>>)>>,
      <<Result(None, <<>>, <<>>)>> }

-----------------------------------------------------------------------------
(* The program.                                                            *)

NoResult == [fn |-> "none"]

Init ==
    /\ pc = "idle"
    /\ api_key \in Keys
    /\ name = None
    /\ company = None
    /\ calls = <<>>
    /\ search_results = <<>>
    /\ candidates = <<>>
    /\ best_candidate = None
    /\ linkedin_url = None
    /\ designation = None
    /\ work_email = None
    /\ result = NoResult
    /\ company_enrichment = <<>>
    /\ revenue_col = <<>>
    /\ tier_col = <<>>

\* a call of get_serpapi_search_results on its own
Search ==
    /\ pc = "idle"
    /\ \E resp \in Responses(RevenueResultLists) :
          LET q == RevenueQuery(<<"A", "c", "m", "e">>)
              got == get_serpapi_search_results(api_key, q, 3, resp)
          IN  /\ calls' = Append(calls, Call(q, 3, resp, got))
              /\ result' = [fn |-> "search", ret |-> got.ret]
              /\ pc' = IF got.raised THEN "crashed" ELSE "done"
    /\ UNCHANGED <<api_key, name, company, search_results, candidates, best_candidate,
                   linkedin_url, designation, work_email, company_enrichment,
                   revenue_col, tier_col>>

\* a call of get_company_revenue_from_serpapi
Revenue ==
    /\ pc = "idle"
    /\ \E c \in CompanyNames, resp \in Responses(RevenueResultLists) :
          \E r \in {get_company_revenue_from_serpapi(api_key, c, resp)} :
              /\ company' = c
              /\ calls' = calls \o r.calls
              /\ result' = [fn |-> "revenue", ret |-> r.ret]
              /\ pc' = IF r.raised THEN "crashed" ELSE "done"
    /\ UNCHANGED <<api_key, name, search_results, candidates, best_candidate,
                   linkedin_url, designation, work_email, company_enrichment,
                   revenue_col, tier_col>>

\* main, lines 228-232: get_company_revenue_from_serpapi applied to one more
\* row of the Company sheet
MainApply ==
    /\ pc \in {"idle", "main_apply"}
    /\ Len(company_enrichment) < MaxRows
    /\ \E c \in MainCompanies, resp \in MainResponses :
          \E r \in {get_company_revenue_from_serpapi(api_key, c, resp)} :
              /\ calls' = calls \o r.calls
              /\ company_enrichment' =
                     IF r.raised THEN company_enrichment
                     ELSE Append(company_enrichment, r.ret.USD_Normalized)
              /\ pc' = IF r.raised THEN "crashed" ELSE "main_apply"
    /\ UNCHANGED <<api_key, name, company, search_results, candidates, best_candidate,
                   linkedin_url, designation, work_email, result, revenue_col, tier_col>>

\* main, lines 233-257: the revenue column, its backfill and the tiers
MainTiers ==
    /\ pc = "main_apply"
    /\ LET col == [i \in 1..Len(company_enrichment) |-> to_numeric(company_enrichment[i])]
           missing_revenue_mask == {i \in 1..Len(col) : col[i] = NaN}
       IN  \E random_revenues \in [missing_revenue_mask -> RandomSample] :
             LET filled == IF missing_revenue_mask = {} THEN col
                           ELSE Backfill(col, random_revenues)
                 final == [i \in 1..Len(col) |-> fillna_zero(filled[i])]
             IN  /\ revenue_col' = final
                 /\ tier_col' = [i \in 1..Len(col) |-> Tier(final[i])]
    /\ result' = [fn |-> "main"]
    /\ pc' = "done"
    /\ UNCHANGED <<api_key, name, company, calls, search_results, candidates,
                   best_candidate, linkedin_url, designation, work_email,
                   company_enrichment>>

\* lines 85-86: a required field is missing
MissingInput(n, c) == ~Truthy(n) \/ isna(n) \/ ~Truthy(c) \/ isna(c)

\* enrich_contact_with_serpapi, lines 85-95: the early return, or the broad
\* profile search
EnrichStage1 ==
    /\ pc = "idle"
    /\ \E nc \in Contacts :
          /\ name' = nc[1]
          /\ company' = nc[2]
          /\ IF MissingInput(nc[1], nc[2])
             THEN /\ result' = [fn |-> "enrich", ret |-> Enrichment(None, None, None, "Low")]
                  /\ pc' = "done"
                  /\ UNCHANGED <<calls, search_results>>
             ELSE \E resp \in Responses(ProfileLists(nc[1], nc[2])) :
                    LET q == Stage1Query(nc[1], nc[2])
                        got == get_serpapi_search_results(api_key, q, 1, resp)
                    IN  /\ calls' = Append(calls, Call(q, 1, resp, got))
                        /\ search_results' = got.ret
                        /\ pc' = IF got.raised THEN "crashed"
                                 ELSE IF NeedStage2(got.ret) THEN "stage2"
                                 ELSE "designation"
                        /\ UNCHANGED result
    /\ UNCHANGED <<api_key, candidates, best_candidate, linkedin_url, designation,
                   work_email, company_enrichment, revenue_col, tier_col>>

\* lines 96-98: the search restricted to personal profiles
EnrichStage2 ==
    /\ pc = "stage2"
    /\ \E resp \in Responses(ProfileLists(name, company)) :
          LET q == Stage2Query(name, company)
              got == get_serpapi_search_results(api_key, q, 1, resp)
          IN  /\ calls' = Append(calls, Call(q, 1, resp, got))
              /\ search_results' = got.ret
              /\ pc' = IF got.raised THEN "crashed" ELSE "designation"
    /\ UNCHANGED <<api_key, name, company, candidates, best_candidate, linkedin_url,
                   designation, work_email, result, company_enrichment, revenue_col,
                   tier_col>>

\* lines 100-180: the profile link, the designation extracted from the top
\* result, and the manual override
EnrichDesignation ==
    /\ pc = "designation"
    /\ IF Accepted(search_results)
       THEN \E top_result \in {search_results[1]} :
            \E cands \in {Candidates(name, company, get(top_result.title),
                                      get(top_result.snippet))} :
            \E best \in {Select(cands, name, company, None, -1)} :
            \E extracted \in {IF Truthy(best) THEN best ELSE None} :
                /\ linkedin_url' = top_result.link
                /\ candidates' = cands
                /\ best_candidate' = best
                /\ designation' = IF Truthy(extracted) THEN extracted
                                  ELSE ManualOverride(name, company)
       ELSE /\ linkedin_url' = None
            /\ candidates' = <<>>
            /\ best_candidate' = None
            /\ designation' = ManualOverride(name, company)
    /\ pc' = "domain"
    /\ UNCHANGED <<api_key, name, company, calls, search_results, work_email, result,
                   company_enrichment, revenue_col, tier_col>>

\* lines 182-205: the domain lookup, the email guess and the return
EnrichEmail ==
    /\ pc = "domain"
    /\ \E resp \in Responses(DomainLists) :
          LET q == DomainQuery(company)
              got == get_serpapi_search_results(api_key, q, 1, resp)
              email == IF got.raised THEN None ELSE Email(name, got.ret)
          IN  /\ calls' = Append(calls, Call(q, 1, resp, got))
              /\ work_email' = email
              /\ result' = [fn |-> "enrich",
                            ret |-> Enrichment(linkedin_url, designation, email,
                                               Confidence(linkedin_url, designation))]
    /\ pc' = "done"
    /\ UNCHANGED <<api_key, name, company, search_results, candidates, best_candidate,
                   linkedin_url, designation, company_enrichment, revenue_col, tier_col>>

Next ==
    \/ Search
    \/ Revenue
    \/ MainApply
    \/ MainTiers
    \/ EnrichStage1
    \/ EnrichStage2
    \/ EnrichDesignation
    \/ EnrichEmail

Spec == Init /\ [][Next]_vars

-----------------------------------------------------------------------------
(* Claims.                                                                 *)

KeyUnset(k) == k = None \/ k = <<>> \/ Contains(k, <<"y", "o", "u", "r", "_", "a", "p", "i", "_", "k", "e", "y", "_", "h", "e", "r", "e">>)

\* C1: get_serpapi_search_results never lets an exception out; it returns the
\* empty list when the credential is missing or the placeholder, when the
\* provider reports an error and when the search call raises, and the
\* provider's organic results exactly when the call succeeds without an error.
C1_GatewayReturnsListNeverRaises ==
    /\ pc # "crashed"
    /\ \A i \in 1..Len(calls) :
          LET c == calls[i]
              failed == KeyUnset(api_key) \/ c.resp.raises \/ c.resp.error
          IN  /\ ~c.raised
              /\ failed => c.ret = <<>>
              /\ ~failed => c.ret = c.resp.organic
              /\ c.resp.sent = ~KeyUnset(api_key)

C1_Witness ==
    /\ pc = "done"
    /\ result = [fn |-> "search", ret |-> <<>>]
    /\ ~KeyUnset(api_key)
    /\ calls[1].resp.raises

Missing(v) == v = None \/ v = NaN \/ v = <<>>

\* C2: a missing input ends the function at once: with a null or empty company
\* name get_company_revenue_from_serpapi returns {null, Low}, with a null or
\* empty name or company enrich_contact_with_serpapi returns null for the
\* profile link, the designation and the work email, with confidence Low; in
\* both cases the gateway is not called.
C2_MissingInputShortCircuits ==
    /\ (pc = "done" /\ result.fn = "revenue" /\ Missing(company)) =>
          /\ result.ret = [USD_Normalized |-> None, Confidence |-> "Low"]
          /\ calls = <<>>
    /\ (pc = "done" /\ result.fn = "enrich" /\ (Missing(name) \/ Missing(company))) =>
          /\ result.ret.LinkedInURL = None
          /\ result.ret.CurrentDesignation = None
          /\ result.ret.WorkEmail = None
          /\ result.ret.Confidence = "Low"
          /\ calls = <<>>

C2_Witness ==
    /\ pc = "done"
    /\ result.fn = "revenue"
    /\ company = <<>>
    /\ ~KeyUnset(api_key)
    /\ calls = <<>>

\* the snippets of the model and the amounts the program finds in them
SnippetOracle ==
    { <<<<"$", "1", ".", "2", " ", "b", "i", "l", "l", "i", "o", "n">>, <<1200, 0>>>>,
      <<<<"$", "5", "0", "0", " ", "M", "I", "L", "L", "I", "O", "N">>, <<500, 0>>>>,
      <<<<"$", "2", " ", "t", "r", "i", "l", "l", "i", "o", "n">>, <<2000000, 0>>>>,
      <<<<"m", "a", "d", "e", " ", "$", "1", ",", "0", "0", "0", ".", "5", " ", "m", "i", "l", "l", "i", "o", "n">>, <<1000, 500000>>>>,
      <<<<>>, None>>,
      <<<<"n", "/", "a">>, None>>,
      <<<<"$", "0", " ", "m", "i", "l", "l", "i", "o", "n">>, None>>,
      <<<<"$", ",", " ", "m", "i", "l", "l", "i", "o", "n">>, None>>,
      <<<<"$", "0", ".", "0", " ", "b", "i", "l", "l", "i", "o", "n", ",", " ", "$", "3", " ", "m", "i", "l", "l", "i", "o", "n">>, None>> }

Expected(snippet) == (CHOOSE e \in SnippetOracle : e[1] = snippet)[2]

\* C3: for a company name that is present, the result is {v, Medium} with v the
\* normalized value of the first snippet, in the order the gateway returned
\* them, whose match parses to a value > 0; snippets that are empty, do not
\* match, do not parse or give a value <= 0 are passed over; if there is no such
\* snippet the result is {null, Low}.  The amount is non-null exactly when the
\* confidence is Medium, and then it is > 0.
C3_FirstValidSnippetWins ==
    (pc = "done" /\ result.fn = "revenue" /\ ~Missing(company)) =>
        LET got == calls[Len(calls)].ret
            valid == {i \in 1..Len(got) : Expected(got[i].snippet) # None}
        IN  /\ Len(calls) = 1
            /\ valid = {} => result.ret = [USD_Normalized |-> None, Confidence |-> "Low"]
            /\ valid # {} =>
                  result.ret = [USD_Normalized |-> Expected(got[Min(valid)].snippet),
                                Confidence |-> "Medium"]
            /\ (result.ret.USD_Normalized # None) <=> (result.ret.Confidence = "Medium")
            /\ result.ret.USD_Normalized # None => Positive(result.ret.USD_Normalized)

\* an invalid snippet first, then two valid ones: the first valid one is returned
C3_Witness ==
    /\ pc = "done"
    /\ result.fn = "revenue"
    /\ Len(calls) = 1
    /\ Len(calls[1].ret) = 2
    /\ calls[1].ret[1].snippet = <<"$", "0", ".", "0", " ", "b", "i", "l", "l", "i", "o", "n", ",", " ", "$", "3", " ", "m", "i", "l", "l", "i", "o", "n">>
    /\ calls[1].ret[2].snippet = <<"$", "2", " ", "t", "r", "i", "l", "l", "i", "o", "n">>
    /\ result.ret = [USD_Normalized |-> <<2000000, 0>>, Confidence |-> "Medium"]

\* dollars of an amount below 2000 million
Dollars(a) == a[1] * 1000000 + a[2]

ClaimedTier(a) ==
    IF a[1] >= 2000 THEN "Super Platinum"
    ELSE IF Dollars(a) > 1000000000 THEN "Super Platinum"
    ELSE IF Dollars(a) >= 500000000 THEN "Platinum"
    ELSE IF Dollars(a) >= 100000000 THEN "Diamond"
    ELSE "Gold"

\* C9: every company row ends with the tier of its revenue r: r > 1,000,000,000
\* Super Platinum, else r >= 500,000,000 Platinum (so 1,000,000,000 is
\* Platinum), else r >= 100,000,000 Diamond, else Gold.  A row without an
\* extracted revenue gets a value in [50,000,000, 1,500,000,000) first and is
\* tiered from it; an extracted revenue is never replaced.
C9_TierFromRevenue ==
    (pc = "done" /\ result.fn = "main") =>
        /\ Len(revenue_col) = Len(company_enrichment)
        /\ Len(tier_col) = Len(company_enrichment)
        /\ \A i \in 1..Len(company_enrichment) :
              /\ tier_col[i] = ClaimedTier(revenue_col[i])
              /\ company_enrichment[i] # None => revenue_col[i] = company_enrichment[i]
              /\ company_enrichment[i] = None =>
                    /\ Dollars(revenue_col[i]) >= 50000000
                    /\ Dollars(revenue_col[i]) < 1500000000

\* a row with an extracted revenue of exactly 1,000,000,000 next to a backfilled row
C9_Witness ==
    /\ pc = "done"
    /\ result.fn = "main"
    /\ Len(company_enrichment) = 2
    /\ company_enrichment[1] = <<1000, 0>>
    /\ tier_col[1] = "Platinum"
    /\ company_enrichment[2] = None
    /\ revenue_col[2] = <<1000, 1>>
    /\ tier_col[2] = "Super Platinum"

EnrichDone == pc = "done" /\ result.fn = "enrich"
Present == ~Missing(name) /\ ~Missing(company)

\* the candidates that pass cleaning and validation, and their adjusted scores
Survivors == {i \in 1..Len(candidates) : Valid(Clean(candidates[i].text, name), name, company)}
Adjusted(i) == AdjustedScore(Clean(candidates[i].text, name), candidates[i].score)

\* C4: among the candidates that survive cleaning and validation the one with
\* the highest adjusted score is the designation; among equal adjusted scores
\* the first seen wins, the candidates standing in the order of the patterns
\* 1, 2, 3, 4 (base scores 100, 80, 60, 40).
C4_HighestScoreFirstSeenWins ==
    ((pc = "domain" \/ EnrichDone) /\ Present) =>
        LET top == {i \in Survivors : \A j \in Survivors : Adjusted(i) >= Adjusted(j)}
        IN  /\ \A i \in 1..Len(candidates) : candidates[i].score \in {100, 80, 60, 40}
            /\ \A i \in 1..(Len(candidates) - 1) :
                  candidates[i].score >= candidates[i + 1].score
            /\ Cardinality({i \in 1..Len(candidates) : candidates[i].score = 60}) <= 1
            /\ Cardinality({i \in 1..Len(candidates) : candidates[i].score = 40}) <= 1
            /\ Survivors = {} => best_candidate = None
            /\ Survivors # {} =>
                  /\ best_candidate = Clean(candidates[Min(top)].text, name)
                  /\ designation = best_candidate

\* three survivors with the adjusted score 100, two of pattern 1 and one of
\* pattern 2 with the bonus: the first of pattern 1 is the designation
C4_Witness ==
    /\ EnrichDone
    /\ name = <<"A", "n", "n", " ", "L", "e", "e">>
    /\ Cardinality({i \in Survivors : Adjusted(i) = 100}) = 3
    /\ \E i \in Survivors : candidates[i].score = 80 /\ Adjusted(i) = 100
    /\ result.ret.CurrentDesignation = <<"F", "o", "u", "n", "d", "e", "r">>

NameTokens == Range(split(lower(name)))

\* C5 as stated: a designation that comes from extraction never contains,
\* ignoring case, the company name or any token of the person's name.
C5_NoCompanyNoNameToken ==
    (EnrichDone /\ Present /\ Truthy(best_candidate)) =>
        /\ result.ret.CurrentDesignation = best_candidate
        /\ ~Contains(lower(best_candidate), lower(company))
        /\ \A w \in NameTokens : ~Contains(lower(best_candidate), w)

\* C5, amended: a designation that comes from extraction never contains,
\* ignoring case, the company name or any token of the person's name that is
\* longer than two characters.
C5_NoCompanyNoLongNameToken ==
    (EnrichDone /\ Present /\ Truthy(best_candidate)) =>
        /\ result.ret.CurrentDesignation = best_candidate
        /\ ~Contains(lower(best_candidate), lower(company))
        /\ \A w \in NameTokens : Len(w) > 2 => ~Contains(lower(best_candidate), w)

\* a candidate of pattern 1 that holds the person's name is passed over, and
\* another candidate is the designation
C5_Witness ==
    /\ EnrichDone
    /\ name = <<"A", "n", "n", " ", "L", "e", "e">>
    /\ \E i \in 1..Len(candidates) :
          /\ candidates[i].score = 100
          /\ Contains(lower(candidates[i].text), <<"a", "n", "n">>)
          /\ i \notin Survivors
    /\ result.ret.CurrentDesignation = <<"C", "l", "i", "e", "n", "t", " ", "P", "a", "r", "t", "n", "e", "r">>

\* C6: when no extracted candidate survives, also when no profile was found,
\* and (name, company) equals an entry of MANUAL_DESIGNATIONS ignoring case in
\* both fields, the designation returned is that entry's, verbatim; if no
\* entry matches, the designation returned is null.
C6_ManualOverrideFallback ==
    (EnrichDone /\ Present /\ ~Truthy(best_candidate)) =>
        LET hits == {i \in 1..Len(MANUAL_DESIGNATIONS) :
                        /\ lower(MANUAL_DESIGNATIONS[i][1]) = lower(name)
                        /\ lower(MANUAL_DESIGNATIONS[i][2]) = lower(company)}
        IN  /\ hits = {} => result.ret.CurrentDesignation = None
            /\ \A i \in hits : result.ret.CurrentDesignation = MANUAL_DESIGNATIONS[i][3]

\* no profile found, the name and the company in another case than the table's:
\* the entry's designation is returned though it holds the company name
C6_Witness ==
    /\ EnrichDone
    /\ name = <<"J", "u", "l", "i", "a", "n", " ", "K", "e", "l", "l", "y">>
    /\ company = <<"g", "o", "o", "g", "l", "e">>
    /\ result.ret.LinkedInURL = None
    /\ result.ret.CurrentDesignation = <<"S", "r", ".", " ", "D", "i", "r", "e", "c", "t", "o", "r", ",", " ", "H", "a", "r", "d", "w", "a", "r", "e", " ", "a", "t", " ", "G", "o", "o", "g", "l", "e", " ", "Q", "u", "a", "n", "t", "u", "m", " ", "A", "I">>

\* netloc without a leading "www."
StripWww_LeadingOnly(netloc) ==
    IF MatchAt(netloc, 1, <<"w", "w", "w", ".">>) THEN SubSeq(netloc, 5, Len(netloc)) ELSE netloc

\* C7: the work email is null unless the domain lookup returned a result whose
\* host is not empty and the name has at least two space-separated tokens;
\* otherwise it is lower(first token) + "." + lower(last token) + "@" + host,
\* the host being the network location of the top result's link with only a
\* leading "www." removed.
C7_EmailFromHostWithoutLeadingWww ==
    (EnrichDone /\ Present) =>
        LET domain_results == calls[Len(calls)].ret
            link == domain_results[1].link
            host == StripWww_LeadingOnly(urlparse_netloc(link).netloc)
            parts == split_space(name)
        IN  result.ret.WorkEmail =
                IF domain_results = <<>> THEN None
                ELSE IF link = None THEN None
                ELSE IF host = <<>> \/ Len(parts) < 2 THEN None
                ELSE lower(parts[1]) \o <<".">> \o lower(parts[Len(parts)])
                         \o <<"@">> \o host

ProfileFirst(results) ==
    results # <<>> /\ Contains(get(results[1].link), <<"l", "i", "n", "k", "e", "d", "i", "n", ".", "c", "o", "m", "/", "i", "n", "/">>)

\* C8: for a contact with name and company the first gateway call is the
\* stage-1 profile query and it is made once; the stage-2 query is made at
\* most once, as the second call, and only if stage 1 did not return a
\* personal-profile link first; the domain lookup is made exactly once, as the
\* last call, after profile discovery, whether discovery succeeded or not; at
\* most four calls are made.
C8_CallOrdering ==
    (pc \in {"stage2", "designation", "domain"} \/ (EnrichDone /\ Present)) =>
        /\ Len(calls) >= 1
        /\ Len(calls) <= 4
        /\ calls[1].query = Stage1Query(name, company)
        /\ \A i \in 2..Len(calls) : calls[i].query # Stage1Query(name, company)
        /\ \A i \in 1..Len(calls) :
              /\ calls[i].query \in {Stage1Query(name, company),
                                     Stage2Query(name, company),
                                     DomainQuery(company)}
              /\ calls[i].query = Stage2Query(name, company) =>
                    i = 2 /\ ~ProfileFirst(calls[1].ret)
              /\ calls[i].query = DomainQuery(company) =>
                    i >= 2 /\ i = Len(calls) /\ pc = "done"
        /\ pc = "done" => calls[Len(calls)].query = DomainQuery(company)
        /\ pc = "domain" => Len(calls) \in {1, 2}

\* both profile searches failed, the domain lookup was made all the same and
\* gave an email
C8_Witness ==
    /\ EnrichDone
    /\ Len(calls) = 3
    /\ calls[2].query = Stage2Query(name, company)
    /\ result.ret.LinkedInURL = None
    /\ result.ret.WorkEmail = <<"a", "n", "n", ".", "l", "e", "e", "@", "a", "c", "m", "e", ".", "c", "o", "m">>

\* C10: the confidence is Medium exactly when the profile link is not null; a
\* profile link that is not null holds "linkedin.com/in/" and is the link of
\* the first result of the last profile search made, so a stage-1 result is
\* not used once stage 2 was made; designation and email have no part in it.
C10_ConfidenceFollowsProfileLink ==
    EnrichDone =>
        LET r == result.ret
        IN  /\ (r.Confidence = "Medium") <=> (r.LinkedInURL # None)
            /\ r.Confidence \in {"Medium", "Low"}
            /\ r.LinkedInURL # None =>
                  /\ Contains(r.LinkedInURL, <<"l", "i", "n", "k", "e", "d", "i", "n", ".", "c", "o", "m", "/", "i", "n", "/">>)
                  /\ Len(calls) >= 2
                  /\ calls[Len(calls) - 1].ret # <<>>
                  /\ r.LinkedInURL = calls[Len(calls) - 1].ret[1].link
            /\ (Present /\ r.LinkedInURL = None) =>
                  ~ProfileFirst(calls[Len(calls) - 1].ret)

\* the profile came from stage 2; no designation, no email, and yet Medium
C10_Witness ==
    /\ EnrichDone
    /\ Len(calls) = 3
    /\ calls[1].ret # <<>>
    /\ result.ret.Confidence = "Medium"
    /\ result.ret.LinkedInURL = calls[2].ret[1].link
    /\ result.ret.CurrentDesignation = None
    /\ result.ret.WorkEmail = None

====
